---- MODULE Spec2Model ----
(***************************************************************************)
(* Model of the Result<T, E> type (Result.ts) and of the ok/err factories  *)
(* (index.ts).  Instances live in a heap (a sequence of objects indexed by *)
(* their identity); every method is an operator from (heap, this, argument)*)
(* to the heap after the call, the value returned, the error thrown and    *)
(* the arguments with which the supplied callback was invoked.             *)
(***************************************************************************)
EXTENDS Integers, Sequences, FiniteSets, TLC

VARIABLES heap, ret, thrown, calls, last, chain

vars == <<heap, ret, thrown, calls, last, chain>>

\* Bounds of the model: the instances alive under each specification.
MaxHeap == 2
MaxCombineHeap == 3
MaxChainLen == 3

(***************************************************************************)
(* JavaScript values.  Every value is a record with a kind field k, so     *)
(* that strict equality (===) is equality of records: primitives by value, *)
(* objects by identity (their position in the heap).                       *)
(***************************************************************************)
Undefined == [k |-> "undefined"]

Str(s) == [k |-> "string", s |-> s]

\* A number, kept as a reduced fraction n / d.
Num(n, d) == [k |-> "number", n |-> n, d |-> d]

Bool(b) == [k |-> "boolean", b |-> b]

Ref(id) == [k |-> "object", id |-> id]

\* The Option collaborator: a populated or an empty container.
some(v) == [k |-> "Some", v |-> v]

none == [k |-> "None"]

\* What a call yields: heap after it, value returned, error thrown, and the
\* invocations of the callback it was given (argument and value returned).
NoError == [name |-> "", message |-> ""]

Return(h, v) == [heap |-> h, ret |-> v, thrown |-> NoError, calls |-> <<>>]

Throw(h, e) == [heap |-> h, ret |-> Undefined, thrown |-> e, calls |-> <<>>]

(***************************************************************************)
(* ResultError                                                             *)
(***************************************************************************)
ResultError(msg) == [name |-> "ResultError", message |-> msg]

illegalInstantiation == ResultError("Result must be an instance of Ok or Err")

illegalCall(method, type) ==
  ResultError("cannot call " \o method \o " on a Result of type " \o type)

(***************************************************************************)
(* Result, Ok, Err.  An object is [cls, _success, _error]; cls is the      *)
(* class it was constructed as (what instanceof tests).                    *)
(***************************************************************************)
isOk(this) == this.cls = "Ok"

\* Mutant of isErr: the test copied from isOk.
isErr_copied(this) == this.cls = "Ok"

isErr(this) == this.cls = "Err"

\* Mutant of Result: the constructor without its instanceof check.
Result_unchecked(h, cls, success, error) ==
  Return(Append(h, [cls |-> cls, _success |-> success, _error |-> error]),
         Ref(Len(h) + 1))

\* new cls(...) running Result's constructor: the instanceof check comes
\* first, the fields are assigned after it.
Result(h, cls, success, error) ==
  IF ~isOk([cls |-> cls]) /\ ~isErr([cls |-> cls])
  THEN Throw(h, illegalInstantiation)
  ELSE Return(Append(h, [cls |-> cls, _success |-> success, _error |-> error]),
              Ref(Len(h) + 1))

Ok(h, success) == Result(h, "Ok", success, Undefined)

Err(h, error) == Result(h, "Err", Undefined, error)

ok(h, success) == Ok(h, success)

err(h, error) == Err(h, error)

(***************************************************************************)
(* Callbacks handed to the combinators.  A callback is [k, name, res]; res *)
(* is the instance a constant callback returns (0 when it has none).       *)
(***************************************************************************)
Fn(name, res) == [k |-> "function", name |-> name, res |-> res]

\* x => x,  () => 'foo',  () => ''
ValueFns == {Fn("identity", 0), Fn("constFoo", 0), Fn("constEmpty", 0)}

\* x => new Ok(x),  () => resb
ResultFns(h) == {Fn("newOk", 0)} \cup {Fn("constRes", b) : b \in DOMAIN h}

CallValueFn(f, x) ==
  CASE f.name = "identity" -> x
    [] f.name = "constFoo" -> Str("foo")
    [] f.name = "constEmpty" -> Str("")

CallResultFn(h, f, x) ==
  CASE f.name = "newOk" -> Ok(h, x)
    [] f.name = "constRes" -> Return(h, Ref(f.res))

\* The call r, recorded as having invoked the callback once: on x, giving out.
Invoked(r, x, out) == [r EXCEPT !.calls = <<[arg |-> x, out |-> out]>>]

(***************************************************************************)
(* Methods of Result.  this and res are identities of instances in h.      *)
(***************************************************************************)
Result_ok(h, this) ==
  IF isOk(h[this]) THEN Return(h, some(h[this]._success)) ELSE Return(h, none)

\* Mutant of Result_err: the body copied from ok().
Result_err_copied(h, this) ==
  IF isOk(h[this]) THEN Return(h, some(h[this]._success)) ELSE Return(h, none)

Result_err(h, this) ==
  IF isOk(h[this]) THEN Return(h, none) ELSE Return(h, some(h[this]._error))

\* Mutant of and: the test inverted.
and_inverted(h, this, res) ==
  IF isErr(h[this]) THEN Return(h, Ref(res)) ELSE Err(h, h[this]._error)

and(h, this, res) ==
  IF isOk(h[this]) THEN Return(h, Ref(res)) ELSE Err(h, h[this]._error)

\* Mutant of andThen: an Err receiver returns itself.
andThen_sameErr(h, this, op) ==
  IF isOk(h[this])
  THEN LET r == CallResultFn(h, op, h[this]._success)
       IN  Invoked(r, h[this]._success, r.ret)
  ELSE Return(h, Ref(this))

andThen(h, this, op) ==
  IF isOk(h[this])
  THEN LET r == CallResultFn(h, op, h[this]._success)
       IN  Invoked(r, h[this]._success, r.ret)
  ELSE Err(h, h[this]._error)

expect(h, this, msg) ==
  IF isOk(h[this]) THEN Return(h, h[this]._success) ELSE Throw(h, ResultError(msg))

expectErr(h, this, msg) ==
  IF isErr(h[this]) THEN Return(h, h[this]._error) ELSE Throw(h, ResultError(msg))

\* Mutant of map: an Err receiver returns itself.
map_sameErr(h, this, op) ==
  IF isOk(h[this])
  THEN LET v == CallValueFn(op, h[this]._success)
       IN  Invoked(Ok(h, v), h[this]._success, v)
  ELSE Return(h, Ref(this))

map(h, this, op) ==
  IF isOk(h[this])
  THEN LET v == CallValueFn(op, h[this]._success)
       IN  Invoked(Ok(h, v), h[this]._success, v)
  ELSE Err(h, h[this]._error)

\* Mutant of mapErr: an Err receiver is updated in place and returned.
mapErr_inplace(h, this, op) ==
  IF isOk(h[this])
  THEN Ok(h, h[this]._success)
  ELSE LET v == CallValueFn(op, h[this]._error)
       IN  Invoked(Return([h EXCEPT ![this]._error = v], Ref(this)), h[this]._error, v)

mapErr(h, this, op) ==
  IF isOk(h[this])
  THEN Ok(h, h[this]._success)
  ELSE LET v == CallValueFn(op, h[this]._error)
       IN  Invoked(Err(h, v), h[this]._error, v)

\* Mutant of or: res is returned whatever the receiver is.
or_passthrough(h, this, res) == Return(h, Ref(res))

or(h, this, res) ==
  IF isOk(h[this]) THEN Ok(h, h[this]._success) ELSE Return(h, Ref(res))

orElse(h, this, op) ==
  IF isOk(h[this])
  THEN Ok(h, h[this]._success)
  ELSE LET r == CallResultFn(h, op, h[this]._error)
       IN  Invoked(r, h[this]._error, r.ret)

\* Mutant of unwrap: the payload is returned without the variant test.
unwrap_unchecked(h, this) == Return(h, h[this]._success)

unwrap(h, this) ==
  IF isOk(h[this]) THEN Return(h, h[this]._success)
  ELSE Throw(h, illegalCall("unwrap", "Err"))

unwrapErr(h, this) ==
  IF isErr(h[this]) THEN Return(h, h[this]._error)
  ELSE Throw(h, illegalCall("unwrapErr", "Ok"))

\* Mutant of unwrapOr: return this._success || optb.
unwrapOr_falsy(h, this, optb) ==
  IF h[this]._success \notin {Undefined, Str("")}
  THEN Return(h, h[this]._success)
  ELSE Return(h, optb)

unwrapOr(h, this, optb) ==
  IF isOk(h[this]) THEN Return(h, h[this]._success) ELSE Return(h, optb)

unwrapOrElse(h, this, op) ==
  IF isOk(h[this]) THEN Return(h, h[this]._success)
  ELSE LET v == CallValueFn(op, h[this]._error)
       IN  Invoked(Return(h, v), h[this]._error, v)

(***************************************************************************)
(* The readme's divide: err('cannot divide by zero') when y === 0,         *)
(* ok(x / y) otherwise.  x / y is kept as a reduced fraction.              *)
(***************************************************************************)
RECURSIVE Gcd(_, _)
Gcd(a, b) == IF b = 0 THEN a ELSE Gcd(b, a % b)

Quotient(x, y) == Num(x \div Gcd(x, y), y \div Gcd(x, y))

divide(h, x, y) ==
  IF y = 0 THEN err(h, Str("cannot divide by zero")) ELSE ok(h, Quotient(x, y))

(***************************************************************************)
(* Inputs                                                                  *)
(***************************************************************************)
\* Payloads given to the constructors: '', 'foo', or an existing instance.
Values(h) == {Str(""), Str("foo")} \cup {Ref(i) : i \in DOMAIN h}

Messages == {"oops", ""}

Fallbacks == {Str("foo"), Num(0 - 1, 1)}

\* Operands of divide(x, y).
DivX == {1, 10}

DivY == {0, 2}

(***************************************************************************)
(* State machine: one action per call a client can make.  last names the   *)
(* call just made: method, receiver (0 for a constructor) and argument.    *)
(* chain follows one expression r.m1(..).m2(..)...: the instance it began  *)
(* with, the instance it has reached, the family of the combinators        *)
(* applied and how many times they invoked a callback.                     *)
(***************************************************************************)
Call(op, recv, arg) == [op |-> op, recv |-> recv, arg |-> arg]

NoChain == [start |-> 0, cur |-> 0, len |-> 0, fam |-> "none", calls |-> 0]

Family(op) ==
  CASE op \in {"map", "and", "andThen"} -> "and"
    [] op \in {"mapErr", "or", "orElse"} -> "or"
    [] OTHER -> "other"

Extends(ch, c) == ch.cur # 0 /\ c.recv = ch.cur /\ Family(c.op) # "other"

Advance(ch, c, r) ==
  IF Extends(ch, c)
  THEN [start |-> ch.start,
        cur |-> r.ret.id,
        len |-> ch.len + 1,
        fam |-> IF ch.fam \in {"none", Family(c.op)} THEN Family(c.op) ELSE "mixed",
        calls |-> ch.calls + Len(r.calls)]
  ELSE ch

\* A scope bounds a specification: how many instances may be alive, which
\* of them the methods are called on, and how long the chain may grow.
Scope(max, recv, len) == [max |-> max, recv |-> recv, len |-> len]

Step(sc, c, r) ==
  /\ Len(r.heap) <= sc.max
  /\ Extends(chain, c) => chain.len < sc.len
  /\ c.recv \in sc.recv \cup {0}
  /\ heap' = r.heap
  /\ ret' = r.ret
  /\ thrown' = r.thrown
  /\ calls' = r.calls
  /\ last' = c
  /\ chain' = Advance(chain, c, r)

NewResult(sc) ==
  \E s \in Values(heap), e \in Values(heap) :
    Step(sc, Call("new Result", 0, s), Result(heap, "Result", s, e))

NewOk(sc) == \E v \in Values(heap) : Step(sc, Call("new Ok", 0, v), Ok(heap, v))

NewErr(sc) == \E e \in Values(heap) : Step(sc, Call("new Err", 0, e), Err(heap, e))

FactoryOk(sc) == \E v \in Values(heap) : Step(sc, Call("ok()", 0, v), ok(heap, v))

FactoryErr(sc) == \E e \in Values(heap) : Step(sc, Call("err()", 0, e), err(heap, e))

Divide(sc) ==
  \E x \in DivX, y \in DivY :
    Step(sc, Call("divide", 0, [k |-> "arguments", x |-> x, y |-> y]), divide(heap, x, y))

IsOk(sc) == \E this \in DOMAIN heap :
  Step(sc, Call("isOk", this, Undefined), Return(heap, Bool(isOk(heap[this]))))

IsErr(sc) == \E this \in DOMAIN heap :
  Step(sc, Call("isErr", this, Undefined), Return(heap, Bool(isErr(heap[this]))))

ToOk(sc) == \E this \in DOMAIN heap :
  Step(sc, Call("ok", this, Undefined), Result_ok(heap, this))

ToErr(sc) == \E this \in DOMAIN heap :
  Step(sc, Call("err", this, Undefined), Result_err(heap, this))

And(sc) == \E this \in DOMAIN heap, res \in DOMAIN heap :
  Step(sc, Call("and", this, Ref(res)), and(heap, this, res))

AndThen(sc) == \E this \in DOMAIN heap, op \in ResultFns(heap) :
  Step(sc, Call("andThen", this, op), andThen(heap, this, op))

Expect(sc) == \E this \in DOMAIN heap, msg \in Messages :
  Step(sc, Call("expect", this, Str(msg)), expect(heap, this, msg))

ExpectErr(sc) == \E this \in DOMAIN heap, msg \in Messages :
  Step(sc, Call("expectErr", this, Str(msg)), expectErr(heap, this, msg))

Map(sc) == \E this \in DOMAIN heap, op \in ValueFns :
  Step(sc, Call("map", this, op), map(heap, this, op))

MapErr(sc) == \E this \in DOMAIN heap, op \in ValueFns :
  Step(sc, Call("mapErr", this, op), mapErr(heap, this, op))

Or(sc) == \E this \in DOMAIN heap, res \in DOMAIN heap :
  Step(sc, Call("or", this, Ref(res)), or(heap, this, res))

OrElse(sc) == \E this \in DOMAIN heap, op \in ResultFns(heap) :
  Step(sc, Call("orElse", this, op), orElse(heap, this, op))

Unwrap(sc) == \E this \in DOMAIN heap :
  Step(sc, Call("unwrap", this, Undefined), unwrap(heap, this))

UnwrapErr(sc) == \E this \in DOMAIN heap :
  Step(sc, Call("unwrapErr", this, Undefined), unwrapErr(heap, this))

UnwrapOr(sc) == \E this \in DOMAIN heap, optb \in Fallbacks :
  Step(sc, Call("unwrapOr", this, optb), unwrapOr(heap, this, optb))

UnwrapOrElse(sc) == \E this \in DOMAIN heap, op \in ValueFns :
  Step(sc, Call("unwrapOrElse", this, op), unwrapOrElse(heap, this, op))

(***************************************************************************)
(* Spec: every constructor and every method, on any live instance.         *)
(***************************************************************************)
Init ==
  /\ heap = <<>>
  /\ ret = Undefined
  /\ thrown = NoError
  /\ calls = <<>>
  /\ last = Call("init", 0, Undefined)
  /\ chain = NoChain

All == Scope(MaxHeap, DOMAIN heap, 0)

Next ==
  \/ NewResult(All) \/ NewOk(All) \/ NewErr(All)
  \/ FactoryOk(All) \/ FactoryErr(All) \/ Divide(All)
  \/ IsOk(All) \/ IsErr(All) \/ ToOk(All) \/ ToErr(All)
  \/ And(All) \/ AndThen(All) \/ Or(All) \/ OrElse(All) \/ Map(All) \/ MapErr(All)
  \/ Expect(All) \/ ExpectErr(All) \/ Unwrap(All) \/ UnwrapErr(All)
  \/ UnwrapOr(All) \/ UnwrapOrElse(All)

Spec == Init /\ [][Next]_vars

(***************************************************************************)
(* SpecCombine: the factories and the six combinators, on any instance.    *)
(***************************************************************************)
Combine == Scope(MaxCombineHeap, DOMAIN heap, 0)

NextCombine ==
  \/ FactoryOk(Combine) \/ FactoryErr(Combine)
  \/ And(Combine) \/ AndThen(Combine) \/ Or(Combine) \/ OrElse(Combine)
  \/ Map(Combine) \/ MapErr(Combine)

SpecCombine == Init /\ [][NextCombine]_vars

(***************************************************************************)
(* SpecChain: one chained expression.  An operand b for and / or exists,   *)
(* the chain starts as ok(v) or err(e), and each combinator is called on   *)
(* the instance the chain has reached.                                     *)
(***************************************************************************)
Make(h, f, v) == IF f = "ok()" THEN ok(h, v) ELSE err(h, v)

InitChain ==
  \E fb \in {"ok()", "err()"}, vb \in Values(<<>>) :
    \E f \in {"ok()", "err()"}, v \in Values(<<>>) :
      LET r == Make(Make(<<>>, fb, vb).heap, f, v)
      IN  /\ heap = r.heap
          /\ ret = r.ret
          /\ thrown = r.thrown
          /\ calls = r.calls
          /\ last = Call(f, 0, v)
          /\ chain = [start |-> r.ret.id, cur |-> r.ret.id, len |-> 0,
                      fam |-> "none", calls |-> 0]

Chained == Scope(MaxChainLen + 2, {chain.cur}, MaxChainLen)

NextChain ==
  \/ And(Chained) \/ AndThen(Chained) \/ Or(Chained) \/ OrElse(Chained)
  \/ Map(Chained) \/ MapErr(Chained)

SpecChain == InitChain /\ [][NextChain]_vars

(***************************************************************************)
(* Properties                                                              *)
(***************************************************************************)
\* The receiver of the call just made, and the instance it returned.
Recv == heap[last.recv]

Made == heap[ret.id]

\* The call just made returned an instance created by that call.
Fresh == ret.k = "object" /\ ret.id = Len(heap) /\ ret.id # last.recv

OkOf(v) == [cls |-> "Ok", _success |-> v, _error |-> Undefined]

ErrOf(e) == [cls |-> "Err", _success |-> Undefined, _error |-> e]

\* C1: ok(v) holds v and err(e) holds e; unwrap / expect return the success
\* payload of an Ok and unwrapErr / expectErr the error payload of an Err, with
\* nothing thrown; on the other variant each returns nothing and throws a
\* ResultError: unwrap and unwrapErr with the fixed illegal-call message, expect
\* and expectErr with exactly the message they were given.
C1_Extractors ==
  /\ last.op \in {"ok()", "new Ok"} => thrown = NoError /\ Made = OkOf(last.arg)
  /\ last.op \in {"err()", "new Err"} => thrown = NoError /\ Made = ErrOf(last.arg)
  /\ last.op = "unwrap" =>
       IF Recv.cls = "Ok"
       THEN ret = Recv._success /\ thrown = NoError
       ELSE /\ ret = Undefined
            /\ thrown = [name |-> "ResultError",
                         message |-> "cannot call unwrap on a Result of type Err"]
  /\ last.op = "unwrapErr" =>
       IF Recv.cls = "Err"
       THEN ret = Recv._error /\ thrown = NoError
       ELSE /\ ret = Undefined
            /\ thrown = [name |-> "ResultError",
                         message |-> "cannot call unwrapErr on a Result of type Ok"]
  /\ last.op = "expect" =>
       IF Recv.cls = "Ok"
       THEN ret = Recv._success /\ thrown = NoError
       ELSE ret = Undefined /\ thrown = [name |-> "ResultError", message |-> last.arg.s]
  /\ last.op = "expectErr" =>
       IF Recv.cls = "Err"
       THEN ret = Recv._error /\ thrown = NoError
       ELSE ret = Undefined /\ thrown = [name |-> "ResultError", message |-> last.arg.s]

\* err(e).expect('oops') has thrown a ResultError whose message is 'oops'.
C1_Witness ==
  /\ last.op = "expect"
  /\ Recv.cls = "Err"
  /\ last.arg = Str("oops")
  /\ thrown = [name |-> "ResultError", message |-> "oops"]

\* C2: isOk() is true of an instance built as Ok and false of one built as Err,
\* isErr() the reverse, and every instance alive answers true to exactly one
\* of the two, whatever its payload.
C2_ExactlyOneVariant ==
  /\ last.op \in {"ok()", "new Ok"} => thrown = NoError /\ Made.cls = "Ok"
  /\ last.op \in {"err()", "new Err"} => thrown = NoError /\ Made.cls = "Err"
  /\ last.op = "isOk" => ret = Bool(Recv.cls = "Ok") /\ thrown = NoError
  /\ last.op = "isErr" => ret = Bool(Recv.cls = "Err") /\ thrown = NoError
  /\ \A i \in DOMAIN heap : isOk(heap[i]) # isErr(heap[i])

\* ok(err(e)).isOk() has returned true.
C2_Witness ==
  /\ last.op = "isOk"
  /\ Recv.cls = "Ok"
  /\ Recv._success.k = "object"
  /\ heap[Recv._success.id].cls = "Err"
  /\ ret = Bool(TRUE)

\* C3: andThen on an Err never invokes fn and returns a new Err, not the
\* receiver, carrying the receiver's error; on an Ok it invokes fn exactly once,
\* with the success payload, and returns the very Result fn returned.
C3_AndThen ==
  last.op = "andThen" =>
    /\ thrown = NoError
    /\ IF Recv.cls = "Err"
       THEN calls = <<>> /\ Fresh /\ Made = ErrOf(Recv._error)
       ELSE /\ Len(calls) = 1
            /\ calls[1].arg = Recv._success
            /\ ret = calls[1].out
            /\ last.arg.name = "constRes" => ret = Ref(last.arg.res)
            /\ last.arg.name = "newOk" => Fresh /\ Made = OkOf(Recv._success)

\* err(e).andThen(fn) has returned another Err, without invoking fn.
C3_Witness ==
  /\ last.op = "andThen"
  /\ Recv.cls = "Err"
  /\ calls = <<>>
  /\ ret.id # last.recv
  /\ Made.cls = "Err"

\* C4: a.and(b) is the instance b when a is an Ok, and a new Err, neither a nor
\* b, carrying a's error when a is an Err; a.or(b) is the instance b when a is
\* an Err, and an Ok carrying a's value when a is an Ok.
C4_AndOr ==
  /\ last.op = "and" =>
       /\ thrown = NoError
       /\ IF Recv.cls = "Ok"
          THEN ret = last.arg
          ELSE Fresh /\ ret # last.arg /\ Made = ErrOf(Recv._error)
  /\ last.op = "or" =>
       /\ thrown = NoError
       /\ IF Recv.cls = "Err"
          THEN ret = last.arg
          ELSE ret.k = "object" /\ Made = OkOf(Recv._success)

\* a.and(b), a an Err and b another instance, an Ok, has returned a third one.
C4_Witness ==
  /\ last.op = "and"
  /\ Recv.cls = "Err"
  /\ last.arg.id # last.recv
  /\ heap[last.arg.id].cls = "Ok"
  /\ ret.id \notin {last.recv, last.arg.id}
  /\ Made.cls = "Err"

\* C5: ok(v).map(fn) is a new Ok holding fn(v), fn invoked once with v;
\* err(e).map(fn) is a new Err holding e, fn not invoked; so r.map(x => x) has
\* the variant and the payload of r and is not r.
C5_Map ==
  last.op = "map" =>
    /\ thrown = NoError
    /\ Fresh
    /\ IF Recv.cls = "Ok"
       THEN /\ Len(calls) = 1
            /\ calls[1].arg = Recv._success
            /\ Made = OkOf(CallValueFn(last.arg, Recv._success))
       ELSE calls = <<>> /\ Made = ErrOf(Recv._error)
    /\ last.arg.name = "identity" => Made = Recv

\* err(e).map(x => x) has returned an Err equal to the receiver, not the receiver.
C5_Witness ==
  /\ last.op = "map"
  /\ last.arg.name = "identity"
  /\ Recv.cls = "Err"
  /\ Made = Recv
  /\ ret.id # last.recv

\* C6: unwrapOr and unwrapOrElse throw nothing; on an Ok both return the
\* success payload (fn not invoked); on an Err unwrapOr returns the fallback
\* and unwrapOrElse invokes fn once, with the error, and returns what it gave.
\* divide(x, 0) is the Err 'cannot divide by zero' and divide(10, 2) the Ok 5,
\* so divide(1, 0).unwrapOr(-1) is -1 and divide(10, 2).unwrap() is 5.
C6_Fallbacks ==
  /\ last.op = "unwrapOr" =>
       /\ thrown = NoError
       /\ ret = IF Recv.cls = "Ok" THEN Recv._success ELSE last.arg
       /\ (Recv = ErrOf(Str("cannot divide by zero")) /\ last.arg = Num(0 - 1, 1))
            => ret = Num(0 - 1, 1)
  /\ last.op = "unwrapOrElse" =>
       /\ thrown = NoError
       /\ IF Recv.cls = "Ok"
          THEN ret = Recv._success /\ calls = <<>>
          ELSE /\ Len(calls) = 1
               /\ calls[1].arg = Recv._error
               /\ ret = CallValueFn(last.arg, Recv._error)
  /\ last.op = "divide" =>
       /\ thrown = NoError
       /\ last.arg.y = 0 => Made = ErrOf(Str("cannot divide by zero"))
       /\ (last.arg.x = 10 /\ last.arg.y = 2) => Made = OkOf(Num(5, 1))
  /\ (last.op = "unwrap" /\ Recv = OkOf(Num(5, 1))) => ret = Num(5, 1) /\ thrown = NoError

\* divide(x, 0).unwrapOr(-1) has returned -1.
C6_Witness ==
  /\ last.op = "unwrapOr"
  /\ Recv = ErrOf(Str("cannot divide by zero"))
  /\ last.arg = Num(0 - 1, 1)
  /\ ret = Num(0 - 1, 1)

\* C7: new Result(success, error) throws the ResultError 'Result must be an
\* instance of Ok or Err', returns nothing and leaves no instance behind, so
\* every instance alive is an Ok or an Err; new Ok, new Err, ok() and err()
\* throw nothing and return the instance they created.
C7_State ==
  /\ last.op = "new Result" =>
       /\ ret = Undefined
       /\ thrown = [name |-> "ResultError",
                    message |-> "Result must be an instance of Ok or Err"]
  /\ last.op \in {"new Ok", "new Err", "ok()", "err()"} =>
       thrown = NoError /\ Fresh
  /\ \A i \in DOMAIN heap : heap[i].cls \in {"Ok", "Err"}

C7_NoBaseInstance ==
  /\ []C7_State
  /\ [][last'.op = "new Result" => heap' = heap]_vars

\* new Result(...) has thrown while an Ok or an Err was alive.
C7_Witness ==
  /\ last.op = "new Result"
  /\ thrown.name = "ResultError"
  /\ Len(heap) >= 1

\* C8: ok() is Some of the success payload on an Ok and None on an Err; err()
\* is Some of the error payload on an Err and None on an Ok.
C8_Options ==
  /\ last.op = "ok" =>
       /\ thrown = NoError
       /\ ret = IF Recv.cls = "Ok"
                THEN [k |-> "Some", v |-> Recv._success]
                ELSE [k |-> "None"]
  /\ last.op = "err" =>
       /\ thrown = NoError
       /\ ret = IF Recv.cls = "Err"
                THEN [k |-> "Some", v |-> Recv._error]
                ELSE [k |-> "None"]

\* err('foo').err() has returned Some('foo').
C8_Witness ==
  /\ last.op = "err"
  /\ Recv = ErrOf(Str("foo"))
  /\ ret = [k |-> "Some", v |-> Str("foo")]

\* C9: no call changes an instance: every instance alive before a call is
\* alive after it with the same variant and the same payloads.
C9_NoMutation ==
  [][\A i \in DOMAIN heap : i \in DOMAIN heap' /\ heap'[i] = heap[i]]_vars

\* err(e).mapErr(fn) has invoked fn and the receiver still holds e.
C9_Witness ==
  /\ last.op = "mapErr"
  /\ Len(calls) = 1
  /\ last.arg.name = "constFoo"
  /\ Recv = ErrOf(Str(""))

\* C10: a chain of map / and / andThen calls begun on an Err has reached an Err
\* with the same error and has invoked no callback; a chain of mapErr / or /
\* orElse calls begun on an Ok has reached an Ok with the same value and has
\* invoked no callback.
C10_Propagation ==
  /\ (chain.fam \in {"none", "and"} /\ heap[chain.start].cls = "Err") =>
       /\ heap[chain.cur] = ErrOf(heap[chain.start]._error)
       /\ chain.calls = 0
  /\ (chain.fam \in {"none", "or"} /\ heap[chain.start].cls = "Ok") =>
       /\ heap[chain.cur] = OkOf(heap[chain.start]._success)
       /\ chain.calls = 0

\* ok(v).mapErr(..).or(..).orElse(..), or such a chain of three, has reached
\* another Ok.
C10_Witness ==
  /\ chain.fam = "or"
  /\ chain.len >= 3
  /\ heap[chain.start].cls = "Ok"
  /\ chain.cur # chain.start
  /\ heap[chain.cur].cls = "Ok"

====
